---- MODULE Spec2Model ----
(***************************************************************************)
(* Model of crates/trigger/src/loader.rs: TriggerLoader and its Loader     *)
(* implementation (load_component, load_module, mount_files) together with *)
(* the free function adapt_old_worlds_to_new.                              *)
(*                                                                         *)
(* Every invocation of a loader method is a call with its own program      *)
(* counter; calls interleave stage by stage.  The local filesystem and the *)
(* two WIT package directories are the environment.                        *)
(***************************************************************************)
EXTENDS Naturals, Sequences, FiniteSets

\* -------------------------------------------------------------------------
\* Bounds
\* -------------------------------------------------------------------------
\* number of loader method invocations in one process
NCalls == 2
\* largest number of file-mount entries of one component
MaxFiles == 2

Calls == 1..NCalls
Loaders == {"L1", "L2"}

\* -------------------------------------------------------------------------
\* Values
\* -------------------------------------------------------------------------
\* A path is a sequence of segments; an absolute path starts with "/".
NoPath == <<>>
AppDir == <<"/", "app">>
WorkingDirs == {AppDir}

IsAbsolute(p) == Len(p) > 0 /\ p[1] = "/"

\* PathBuf::join: an absolute argument replaces the receiver.
PathJoin(base, p) == IF IsAbsolute(p) THEN p ELSE base \o p

\* A WebAssembly binary: its format, the contract version it was built
\* against, and whether it is the output of the componentize transform.
Bin(shape, world, wrapped) == [shape |-> shape, world |-> world, wrapped |-> wrapped]
NoBytes == Bin("none", "none", FALSE)
CurrentComponent == Bin("component", "current", FALSE)
LegacyComponent == Bin("component", "legacy", FALSE)
CurrentModule == Bin("module", "current", FALSE)
LegacyModule == Bin("module", "legacy", FALSE)
Garbage == Bin("garbage", "none", FALSE)

\* The local filesystem: what lives at an absolute path.
\*   "file"   a regular file with contents
\*   "dir"    a directory the process can open
\*   "locked" a directory the process cannot open
\*   "none"   nothing
Node(kind, bytes) == [kind |-> kind, bytes |-> bytes]
NodeAt(p) ==
    CASE p = <<"/", "app", "comp.wasm">> -> Node("file", CurrentComponent)
      [] p = <<"/", "app", "old.wasm">> -> Node("file", LegacyComponent)
      [] p = <<"/", "app", "mod.wasm">> -> Node("file", CurrentModule)
      [] p = <<"/", "app", "oldmod.wasm">> -> Node("file", LegacyModule)
      [] p = <<"/", "app", "junk.wasm">> -> Node("file", Garbage)
      [] p = <<"/", "app">> -> Node("dir", NoBytes)
      [] p = <<"/", "app", "data">> -> Node("dir", NoBytes)
      [] p = <<"/", "app", "assets">> -> Node("dir", NoBytes)
      [] p = <<"/", "app", "secret">> -> Node("locked", NoBytes)
      [] OTHER -> Node("none", NoBytes)

\* Path::is_dir
IsDir(p) == NodeAt(p).kind \in {"dir", "locked"}

\* A content-source reference; NoSource is Option::None.
Url(scheme, path) == [scheme |-> scheme, path |-> path]
NoSource == Url("none", NoPath)
FileUrl(p) == Url("file", p)

ComponentSources ==
    { NoSource,
      Url("https", <<"/", "app", "comp.wasm">>),
      FileUrl(<<"/", "app", "comp.wasm">>),
      FileUrl(<<"/", "app", "old.wasm">>),
      FileUrl(<<"/", "app", "mod.wasm">>),
      FileUrl(<<"/", "app", "oldmod.wasm">>),
      FileUrl(<<"/", "app", "junk.wasm">>),
      FileUrl(<<"/", "app", "gone.wasm">>) }

\* A file-mount entry of a component: content.source and the guest path.
ContentDir(source, guest) == [source |-> source, path |-> guest]
ContentDirs ==
    { ContentDir(FileUrl(<<"/", "app", "data">>), "/data"),
      ContentDir(FileUrl(<<"assets">>), "/assets"),
      ContentDir(FileUrl(<<"/", "app", "comp.wasm">>), "/bin"),
      ContentDir(FileUrl(<<"/", "app", "secret">>), "/secret"),
      ContentDir(Url("https", <<"/", "app", "data">>), "/remote"),
      ContentDir(NoSource, "/nosource") }

SeqsUpTo(S, n) == UNION { [1..k -> S] : k \in 0..n }
FileLists == SeqsUpTo(ContentDirs, MaxFiles)

\* Results of a call or of a fallible helper.
Ok == [kind |-> "Ok", error |-> "none"]
Err(e) == [kind |-> "Err", error |-> e]
Panic(e) == [kind |-> "Panic", error |-> e]
Pending == [kind |-> "Pending", error |-> "none"]

\* Cow<[u8]>
Borrowed(b) == [tag |-> "Borrowed", bytes |-> b]
Owned(b) == [tag |-> "Owned", bytes |-> b]
NoCow == [tag |-> "None", bytes |-> NoBytes]

\* A WIT package directory on disk.
WitDir(parses, hasPkg, hasWorld) == [parses |-> parses, hasPkg |-> hasPkg, hasWorld |-> hasWorld]
GoodDir == WitDir(TRUE, TRUE, TRUE)
WitEnv(spin, wasi, mergeable) == [spin |-> spin, wasi |-> wasi, mergeable |-> mergeable]
WitEnvs ==
    { WitEnv(GoodDir, GoodDir, TRUE),
      WitEnv(WitDir(FALSE, TRUE, TRUE), GoodDir, TRUE),
      WitEnv(GoodDir, WitDir(TRUE, FALSE, TRUE), TRUE) }

\* -------------------------------------------------------------------------
\* State
\* -------------------------------------------------------------------------
VARIABLES
    loader,         \* TriggerLoader { working_dir, allow_transient_write } per instance
    wit,            \* the WIT package directories bundled with the deployment
    pc,             \* position of each call
    op,             \* method each call runs
    self,           \* the loader each call was invoked on
    source,         \* LockedComponentSource.content.source of a load call
    files,          \* component.files() of a mount_files call
    path,           \* local `path`
    bytes,          \* local `bytes`
    component,      \* local `component` after componentize_if_necessary
    adaptInput,     \* argument handed to adapt_old_worlds_to_new
    adapted,        \* value returned by adapt_old_worlds_to_new
    engineInput,    \* what the call handed to the engine for compilation
    idx,            \* loop position of mount_files
    store_builder,  \* preopen directives registered on the call's StoreBuilder
    trace,          \* stages the call has executed, in order
    result          \* what the call returned

vars == <<loader, wit, pc, op, self, source, files, path, bytes, component,
          adaptInput, adapted, engineInput, idx, store_builder, trace, result>>

loadVars == <<source, path, bytes, component, adaptInput, adapted, engineInput>>
mountVars == <<files, idx, store_builder>>

\* -------------------------------------------------------------------------
\* Collaborators and pure helpers
\* -------------------------------------------------------------------------
\* crate::parse_file_url: a local path for a file-scheme reference, an
\* InvalidSource error for anything else.
parse_file_url(u) ==
    IF u.scheme = "file" /\ Len(u.path) > 0
    THEN [res |-> Ok, path |-> u.path]
    ELSE [res |-> Err("InvalidSource"), path |-> NoPath]

\* tokio::fs::read(&path)
FsRead(p) ==
    IF NodeAt(p).kind = "file"
    THEN [res |-> Ok, bytes |-> NodeAt(p).bytes]
    ELSE [res |-> Err("IoError"), bytes |-> NoBytes]

\* spin_componentize::componentize_if_necessary: a component passes through
\* borrowed, a core module is wrapped into a new component, anything else is
\* rejected.
componentize_if_necessary(b) ==
    CASE b.shape = "component" -> [res |-> Ok, cow |-> Borrowed(b)]
      [] b.shape = "module" -> [res |-> Ok, cow |-> Owned(Bin("component", b.world, TRUE))]
      [] OTHER -> [res |-> Err("UnrecognizedBinary"), cow |-> NoCow]

\* The target contract adapt_old_worlds_to_new builds before the check:
\* push_dir(wit), package lookup (unwrap), select_world("platform"),
\* push_dir(wasi), package lookup (unwrap), select_world(adapter), merge.
NoContract == [world |-> "none"]
ResolveContract(w) ==
    CASE ~w.spin.parses -> [res |-> Err("ContractResolution"), contract |-> NoContract]
      [] ~w.spin.hasPkg -> [res |-> Panic("unwrap on None"), contract |-> NoContract]
      [] ~w.spin.hasWorld -> [res |-> Err("ContractResolution"), contract |-> NoContract]
      [] ~w.wasi.parses -> [res |-> Err("ContractResolution"), contract |-> NoContract]
      [] ~w.wasi.hasPkg -> [res |-> Panic("unwrap on None"), contract |-> NoContract]
      [] ~w.wasi.hasWorld -> [res |-> Err("ContractResolution"), contract |-> NoContract]
      [] ~w.mergeable -> [res |-> Err("ContractResolution"), contract |-> NoContract]
      [] OTHER -> [res |-> Ok, contract |-> [world |-> "current"]]

\* wit_component::targets(&resolve, spin_world, component).is_ok()
Targets(contract, b) == b.shape = "component" /\ b.world = contract.world

\* spin_core::Component::new(engine, bytes)
CompileComponent(b) == IF b.shape = "component" THEN Ok ELSE Err("CompilationError")

\* spin_core::Module::from_file(engine, &path)
CompileModuleFromFile(p) ==
    IF NodeAt(p).kind = "file" /\ NodeAt(p).bytes.shape = "module"
    THEN Ok ELSE Err("CompilationError")

\* StoreBuilder::read_only_preopened_dir / read_write_preopened_dir: opening
\* the host directory can fail.
PreopenDir(host) == IF NodeAt(host).kind = "dir" THEN Ok ELSE Err("PreopenFailed")

Directive(host, guest, mode) == [host |-> host, guest |-> guest, mode |-> mode]

\* -------------------------------------------------------------------------
\* Initial state: loaders constructed by TriggerLoader::new, no call started
\* -------------------------------------------------------------------------
LoaderConfigs == [working_dir : WorkingDirs, allow_transient_write : BOOLEAN]

\* The state in which every call is still to be made; fl is the list of file
\* mounts the component descriptors carry.
Start(fl) ==
    /\ loader \in [Loaders -> LoaderConfigs]
    /\ wit \in WitEnvs
    /\ pc = [c \in Calls |-> "idle"]
    /\ op = [c \in Calls |-> "none"]
    /\ self = [c \in Calls |-> "L1"]
    /\ source = [c \in Calls |-> NoSource]
    /\ files = [c \in Calls |-> fl]
    /\ path = [c \in Calls |-> NoPath]
    /\ bytes = [c \in Calls |-> NoBytes]
    /\ component = [c \in Calls |-> NoCow]
    /\ adaptInput = [c \in Calls |-> NoBytes]
    /\ adapted = [c \in Calls |-> NoCow]
    /\ engineInput = [c \in Calls |-> NoBytes]
    /\ idx = [c \in Calls |-> 1]
    /\ store_builder = [c \in Calls |-> <<>>]
    /\ trace = [c \in Calls |-> <<>>]
    /\ result = [c \in Calls |-> Pending]

Init == Start(<<>>)

\* A call returns: its result is recorded and it never runs again.
Return(c, r) ==
    /\ pc' = [pc EXCEPT ![c] = "done"]
    /\ result' = [result EXCEPT ![c] = r]

Goto(c, l) ==
    /\ pc' = [pc EXCEPT ![c] = l]
    /\ UNCHANGED result

Stage(c, s) == trace' = [trace EXCEPT ![c] = Append(@, s)]

\* -------------------------------------------------------------------------
\* Invocations
\* -------------------------------------------------------------------------
InvokeLoadComponent(c, l, src) ==
    /\ pc[c] = "idle"
    /\ op' = [op EXCEPT ![c] = "load_component"]
    /\ self' = [self EXCEPT ![c] = l]
    /\ source' = [source EXCEPT ![c] = src]
    /\ Goto(c, "lc_resolve")
    /\ UNCHANGED <<loader, wit, files, path, bytes, component, adaptInput, adapted,
                   engineInput, idx, store_builder, trace>>

InvokeLoadModule(c, l, src) ==
    /\ pc[c] = "idle"
    /\ op' = [op EXCEPT ![c] = "load_module"]
    /\ self' = [self EXCEPT ![c] = l]
    /\ source' = [source EXCEPT ![c] = src]
    /\ Goto(c, "lm_resolve")
    /\ UNCHANGED <<loader, wit, files, path, bytes, component, adaptInput, adapted,
                   engineInput, idx, store_builder, trace>>

InvokeMountFiles(c, l, fl) ==
    /\ pc[c] = "idle"
    /\ op' = [op EXCEPT ![c] = "mount_files"]
    /\ self' = [self EXCEPT ![c] = l]
    /\ files' = [files EXCEPT ![c] = fl]
    /\ Goto(c, "mf_loop")
    /\ UNCHANGED <<loader, wit, loadVars, idx, store_builder, trace>>

\* -------------------------------------------------------------------------
\* load_component
\* -------------------------------------------------------------------------
\* source.content.source.as_ref().context(..)?; parse_file_url(source)?
ResolvePath(src) ==
    IF src = NoSource
    THEN [res |-> Err("MissingSourceField"), path |-> NoPath]
    ELSE parse_file_url(src)

LoadComponentResolve(c) ==
    /\ pc[c] = "lc_resolve"
    /\ Stage(c, "resolve")
    /\ LET r == ResolvePath(source[c]) IN
         IF r.res.kind = "Ok"
         THEN /\ path' = [path EXCEPT ![c] = r.path]
              /\ Goto(c, "lc_read")
         ELSE /\ Return(c, r.res)
              /\ UNCHANGED path
    /\ UNCHANGED <<loader, wit, op, self, source, bytes, component, adaptInput,
                   adapted, engineInput, mountVars>>

LoadComponentRead(c) ==
    /\ pc[c] = "lc_read"
    /\ Stage(c, "read")
    /\ LET r == FsRead(path[c]) IN
         IF r.res.kind = "Ok"
         THEN /\ bytes' = [bytes EXCEPT ![c] = r.bytes]
              /\ Goto(c, "lc_normalize")
         ELSE /\ Return(c, r.res)
              /\ UNCHANGED bytes
    /\ UNCHANGED <<loader, wit, op, self, source, path, component, adaptInput,
                   adapted, engineInput, mountVars>>

LoadComponentNormalize(c) ==
    /\ pc[c] = "lc_normalize"
    /\ Stage(c, "normalize")
    /\ LET r == componentize_if_necessary(bytes[c]) IN
         IF r.res.kind = "Ok"
         THEN /\ component' = [component EXCEPT ![c] = r.cow]
              /\ Goto(c, "lc_adapt")
         ELSE /\ Return(c, r.res)
              /\ UNCHANGED component
    /\ UNCHANGED <<loader, wit, op, self, source, path, bytes, adaptInput,
                   adapted, engineInput, mountVars>>

\* the argument of adapt_old_worlds_to_new(&component)
\* (fault variant: the raw file contents are handed to the adapter)
AdaptArgument_rawBytes(c) == bytes[c]
AdaptArgument(c) == component[c].bytes

\* return Ok(Cow::Borrowed(component))
\* (fault variant: the conformant input is copied into a new buffer)
PassThrough_copied(b) == Owned(b)
PassThrough(b) == Borrowed(b)

\* adapt_old_worlds_to_new up to the direct target check: build the target
\* contract, then return the input borrowed if it conforms.
\* (fault variant: once any call has run the check, later calls skip it)
AdaptDirectCheck_cachedVerdict(c) ==
    /\ pc[c] = "lc_adapt"
    /\ Stage(c, "adapt")
    /\ adaptInput' = [adaptInput EXCEPT ![c] = AdaptArgument(c)]
    /\ LET r == ResolveContract(wit)
           warm == \E d \in Calls \ {c} : adaptInput[d] # NoBytes IN
         IF r.res.kind # "Ok"
         THEN /\ Return(c, r.res)
              /\ UNCHANGED adapted
         ELSE IF warm \/ Targets(r.contract, AdaptArgument(c))
              THEN /\ adapted' = [adapted EXCEPT ![c] = PassThrough(AdaptArgument(c))]
                   /\ Goto(c, "lc_compile")
              ELSE /\ Goto(c, "lc_compose")
                   /\ UNCHANGED adapted
    /\ UNCHANGED <<loader, wit, op, self, source, path, bytes, component,
                   engineInput, mountVars>>

AdaptDirectCheck(c) ==
    /\ pc[c] = "lc_adapt"
    /\ Stage(c, "adapt")
    /\ adaptInput' = [adaptInput EXCEPT ![c] = AdaptArgument(c)]
    /\ LET r == ResolveContract(wit) IN
         IF r.res.kind # "Ok"
         THEN /\ Return(c, r.res)
              /\ UNCHANGED adapted
         ELSE IF Targets(r.contract, AdaptArgument(c))
              THEN /\ adapted' = [adapted EXCEPT ![c] = PassThrough(AdaptArgument(c))]
                   /\ Goto(c, "lc_compile")
              ELSE /\ Goto(c, "lc_compose")
                   /\ UNCHANGED adapted
    /\ UNCHANGED <<loader, wit, op, self, source, path, bytes, component,
                   engineInput, mountVars>>

\* the composition with the adapter component: todo!()
AdaptCompose(c) ==
    /\ pc[c] = "lc_compose"
    /\ Stage(c, "compose")
    /\ Return(c, Panic("not yet implemented"))
    /\ UNCHANGED <<loader, wit, op, self, loadVars, mountVars>>

LoadComponentCompile(c) ==
    /\ pc[c] = "lc_compile"
    /\ Stage(c, "compile")
    /\ engineInput' = [engineInput EXCEPT ![c] = adapted[c].bytes]
    /\ Return(c, CompileComponent(adapted[c].bytes))
    /\ UNCHANGED <<loader, wit, op, self, source, path, bytes, component,
                   adaptInput, adapted, mountVars>>

\* -------------------------------------------------------------------------
\* load_module
\* -------------------------------------------------------------------------
\* (fault variant: the two ? returns are dropped)
LoadModuleResolve_unchecked(c) ==
    /\ pc[c] = "lm_resolve"
    /\ Stage(c, "resolve")
    /\ path' = [path EXCEPT ![c] = source[c].path]
    /\ Goto(c, "lm_compile")
    /\ UNCHANGED <<loader, wit, op, self, source, bytes, component, adaptInput,
                   adapted, engineInput, mountVars>>

LoadModuleResolve(c) ==
    /\ pc[c] = "lm_resolve"
    /\ Stage(c, "resolve")
    /\ LET r == ResolvePath(source[c]) IN
         IF r.res.kind = "Ok"
         THEN /\ path' = [path EXCEPT ![c] = r.path]
              /\ Goto(c, "lm_compile")
         ELSE /\ Return(c, r.res)
              /\ UNCHANGED path
    /\ UNCHANGED <<loader, wit, op, self, source, bytes, component, adaptInput,
                   adapted, engineInput, mountVars>>

LoadModuleCompile(c) ==
    /\ pc[c] = "lm_compile"
    /\ Stage(c, "compile")
    /\ engineInput' = [engineInput EXCEPT ![c] = NodeAt(path[c]).bytes]
    /\ Return(c, CompileModuleFromFile(path[c]))
    /\ UNCHANGED <<loader, wit, op, self, source, path, bytes, component,
                   adaptInput, adapted, mountVars>>

\* -------------------------------------------------------------------------
\* mount_files
\* -------------------------------------------------------------------------
\* read-write if allow_transient_write, read-only otherwise
\* (fault variant: the flag is ignored)
AccessMode_readOnly(l) == "ro"
AccessMode(l) == IF loader[l].allow_transient_write THEN "rw" ELSE "ro"

\* One pass of the loop body for entry e: the error it stops with, or Ok and
\* the host directory to preopen.
\* (fault variant: the ensure!(is_dir) is dropped)
MountEntry_noDirCheck(wd, e) ==
    IF e.source = NoSource
    THEN [res |-> Err("MissingSourceField"), host |-> NoPath]
    ELSE LET u == parse_file_url(e.source) IN
         IF u.res.kind # "Ok"
         THEN [res |-> u.res, host |-> NoPath]
         ELSE LET source_path == PathJoin(wd, u.path) IN
              [res |-> IF NodeAt(source_path).kind = "locked"
                       THEN Err("PreopenFailed") ELSE Ok,
               host |-> source_path]

MountEntry(wd, e) ==
    IF e.source = NoSource
    THEN [res |-> Err("MissingSourceField"), host |-> NoPath]
    ELSE LET u == parse_file_url(e.source) IN
         IF u.res.kind # "Ok"
         THEN [res |-> u.res, host |-> NoPath]
         ELSE LET source_path == PathJoin(wd, u.path) IN
              IF ~IsDir(source_path)
              THEN [res |-> Err("NotADirectory"), host |-> NoPath]
              ELSE [res |-> PreopenDir(source_path), host |-> source_path]

MountFilesStep(c) ==
    /\ pc[c] = "mf_loop"
    /\ idx[c] <= Len(files[c])
    /\ Stage(c, "mount")
    /\ LET e == files[c][idx[c]]
           r == MountEntry(loader[self[c]].working_dir, e) IN
         IF r.res.kind = "Ok"
         THEN /\ store_builder' = [store_builder EXCEPT ![c] =
                     Append(@, Directive(r.host, e.path, AccessMode(self[c])))]
              /\ idx' = [idx EXCEPT ![c] = @ + 1]
              /\ Goto(c, "mf_loop")
         ELSE /\ Return(c, r.res)
              /\ UNCHANGED <<store_builder, idx>>
    /\ UNCHANGED <<loader, wit, op, self, files, loadVars>>

\* (fault variant: a finished mount switches the loader to read-only)
MountFilesReturn_rememberMode(c) ==
    /\ pc[c] = "mf_loop"
    /\ idx[c] > Len(files[c])
    /\ Return(c, Ok)
    /\ loader' = [loader EXCEPT ![self[c]].allow_transient_write = FALSE]
    /\ UNCHANGED <<wit, op, self, loadVars, mountVars, trace>>

MountFilesReturn(c) ==
    /\ pc[c] = "mf_loop"
    /\ idx[c] > Len(files[c])
    /\ Return(c, Ok)
    /\ UNCHANGED <<loader, wit, op, self, loadVars, mountVars, trace>>

\* -------------------------------------------------------------------------
\* Specification
\* -------------------------------------------------------------------------
Next ==
    \/ \E c \in Calls, l \in Loaders, src \in ComponentSources : InvokeLoadComponent(c, l, src)
    \/ \E c \in Calls, l \in Loaders, src \in ComponentSources : InvokeLoadModule(c, l, src)
    \/ \E c \in Calls, l \in Loaders, fl \in FileLists : InvokeMountFiles(c, l, fl)
    \/ \E c \in Calls : LoadComponentResolve(c)
    \/ \E c \in Calls : LoadComponentRead(c)
    \/ \E c \in Calls : LoadComponentNormalize(c)
    \/ \E c \in Calls : AdaptDirectCheck(c)
    \/ \E c \in Calls : AdaptCompose(c)
    \/ \E c \in Calls : LoadComponentCompile(c)
    \/ \E c \in Calls : LoadModuleResolve(c)
    \/ \E c \in Calls : LoadModuleCompile(c)
    \/ \E c \in Calls : MountFilesStep(c)
    \/ \E c \in Calls : MountFilesReturn(c)

Spec == Init /\ [][Next]_vars

\* load_component calls only, all on one loader.
NextComponent ==
    \/ \E c \in Calls, src \in ComponentSources : InvokeLoadComponent(c, "L1", src)
    \/ \E c \in Calls : LoadComponentResolve(c)
    \/ \E c \in Calls : LoadComponentRead(c)
    \/ \E c \in Calls : LoadComponentNormalize(c)
    \/ \E c \in Calls : AdaptDirectCheck(c)
    \/ \E c \in Calls : AdaptCompose(c)
    \/ \E c \in Calls : LoadComponentCompile(c)

SpecComponent == Init /\ [][NextComponent]_vars

\* load_module calls only, all on one loader.
NextModule ==
    \/ \E c \in Calls, src \in ComponentSources : InvokeLoadModule(c, "L1", src)
    \/ \E c \in Calls : LoadModuleResolve(c)
    \/ \E c \in Calls : LoadModuleCompile(c)

SpecModule == Init /\ [][NextModule]_vars

\* mount_files calls only: every call mounts the files of the same component
\* descriptor, on either loader.
GoodWit == WitEnv(GoodDir, GoodDir, TRUE)

InitMount == \E fl \in FileLists : Start(fl) /\ wit = GoodWit

NextMount ==
    \/ \E c \in Calls, l \in Loaders : InvokeMountFiles(c, l, files[c])
    \/ \E c \in Calls : MountFilesStep(c)
    \/ \E c \in Calls : MountFilesReturn(c)

SpecMount == InitMount /\ [][NextMount]_vars

\* A batch of loads and mounts of different components on one loader: a
\* component that loads, one that needs adaptation, one whose file is gone;
\* a module that loads and one without a source; mounts of directories and
\* of a regular file.
BatchComponents ==
    { FileUrl(<<"/", "app", "comp.wasm">>),
      FileUrl(<<"/", "app", "old.wasm">>),
      FileUrl(<<"/", "app", "gone.wasm">>) }
BatchModules == { FileUrl(<<"/", "app", "mod.wasm">>), NoSource }
BatchFiles ==
    SeqsUpTo({ ContentDir(FileUrl(<<"/", "app", "data">>), "/data"),
               ContentDir(FileUrl(<<"/", "app", "comp.wasm">>), "/bin") }, MaxFiles)

InitBatch == Init /\ wit = GoodWit

NextBatch ==
    \/ \E c \in Calls, src \in BatchComponents : InvokeLoadComponent(c, "L1", src)
    \/ \E c \in Calls, src \in BatchModules : InvokeLoadModule(c, "L1", src)
    \/ \E c \in Calls, fl \in BatchFiles : InvokeMountFiles(c, "L1", fl)
    \/ \E c \in Calls : LoadComponentResolve(c)
    \/ \E c \in Calls : LoadComponentRead(c)
    \/ \E c \in Calls : LoadComponentNormalize(c)
    \/ \E c \in Calls : AdaptDirectCheck(c)
    \/ \E c \in Calls : AdaptCompose(c)
    \/ \E c \in Calls : LoadComponentCompile(c)
    \/ \E c \in Calls : LoadModuleResolve(c)
    \/ \E c \in Calls : LoadModuleCompile(c)
    \/ \E c \in Calls : MountFilesStep(c)
    \/ \E c \in Calls : MountFilesReturn(c)

SpecBatch == InitBatch /\ [][NextBatch]_vars

TypeOK ==
    /\ \A c \in Calls : pc[c] \in {"idle", "lc_resolve", "lc_read", "lc_normalize",
                                   "lc_adapt", "lc_compose", "lc_compile",
                                   "lm_resolve", "lm_compile", "mf_loop", "done"}
    /\ \A c \in Calls : result[c].kind \in {"Pending", "Ok", "Err", "Panic"}

\* -------------------------------------------------------------------------
\* Properties
\* -------------------------------------------------------------------------
IsPrefix(s, t) == Len(s) <= Len(t) /\ \A i \in 1..Len(s) : s[i] = t[i]
Ran(c, s) == \E i \in 1..Len(trace[c]) : trace[c][i] = s
Times(c, s) == Cardinality({ i \in 1..Len(trace[c]) : trace[c][i] = s })

ComponentCalls == { c \in Calls : op[c] = "load_component" }
ModuleCalls == { c \in Calls : op[c] = "load_module" }
MountCalls == { c \in Calls : op[c] = "mount_files" }

\* the direct target check of call c succeeded / failed
ContractOk == ResolveContract(wit).res.kind = "Ok"
DirectCheckPassed(c) ==
    Ran(c, "adapt") /\ ContractOk /\ Targets(ResolveContract(wit).contract, adaptInput[c])
DirectCheckFailed(c) ==
    Ran(c, "adapt") /\ ContractOk /\ ~Targets(ResolveContract(wit).contract, adaptInput[c])

\* C1: a component that passes the direct target check is returned by the
\* adapter unchanged, as the borrowed input, and no composition step is taken.
C1_PassThrough ==
    \A c \in ComponentCalls :
        DirectCheckPassed(c) =>
            /\ adapted[c] = Borrowed(adaptInput[c])
            /\ ~Ran(c, "compose")
            /\ pc[c] \in {"lc_compile", "done"}

C1_Witness ==
    \E c \in ComponentCalls :
        /\ DirectCheckPassed(c)
        /\ adaptInput[c] = CurrentComponent
        /\ adapted[c].bytes = CurrentComponent
        /\ pc[c] = "done"

\* C2: a component that fails the direct target check ends the adapter either
\* with a composed binary that passes the check or with an IncompatibleWorld
\* error returned to the caller; no run ends any other way.
C2_ComposeTerminates ==
    \A c \in ComponentCalls :
        (pc[c] = "done" /\ DirectCheckFailed(c)) =>
            \/ /\ result[c].kind = "Ok"
               /\ adapted[c].tag = "Owned"
               /\ Targets(ResolveContract(wit).contract, adapted[c].bytes)
            \/ result[c] = Err("IncompatibleWorld")

\* the host path an entry resolves to, and the first entry of a list that is Bad
ResolvedHost(wd, e) == PathJoin(wd, e.source.path)
IsNonDirectoryEntry(wd, e) ==
    e.source.scheme = "file" /\ ~IsDir(ResolvedHost(wd, e))
FirstIndex(fl, Bad(_)) ==
    IF \E i \in 1..Len(fl) : Bad(fl[i])
    THEN CHOOSE i \in 1..Len(fl) : Bad(fl[i]) /\ \A j \in 1..(i - 1) : ~Bad(fl[j])
    ELSE Len(fl) + 1

\* C3 as claimed: the only entry that stops mount_files is one whose resolved
\* path is not a directory (NotADirectory); every entry before it gets exactly
\* one directive, and a list without such an entry succeeds.
C3_Original ==
    \A c \in MountCalls :
        pc[c] = "done" =>
            LET wd == loader[self[c]].working_dir
                NonDir(e) == IsNonDirectoryEntry(wd, e)
                k == FirstIndex(files[c], NonDir)
            IN /\ Len(store_builder[c]) = k - 1
               /\ result[c] = IF k <= Len(files[c]) THEN Err("NotADirectory") ELSE Ok

\* why mount_files stops at an entry, "none" if it does not
EntryFailure(wd, e) ==
    CASE e.source = NoSource -> "MissingSourceField"
      [] e.source.scheme # "file" -> "InvalidSource"
      [] NodeAt(ResolvedHost(wd, e)).kind \notin {"dir", "locked"} -> "NotADirectory"
      [] NodeAt(ResolvedHost(wd, e)).kind = "locked" -> "PreopenFailed"
      [] OTHER -> "none"

\* C3 amended: entries are processed in order; the first entry that lacks a
\* source, has an invalid source reference, resolves to something that is not
\* a directory, or whose directory the builder cannot preopen stops the call
\* with that error; every entry before it has exactly one directive (its host
\* directory paired with its guest path), that entry and the later ones have
\* none; a list without such an entry succeeds with one directive per entry.
C3_MountInOrder ==
    \A c \in MountCalls :
        LET wd == loader[self[c]].working_dir
            Fails(e) == EntryFailure(wd, e) # "none"
            k == FirstIndex(files[c], Fails)
            sb == store_builder[c]
        IN /\ Len(sb) <= k - 1
           /\ \A i \in 1..Len(sb) :
                 /\ sb[i].host = ResolvedHost(wd, files[c][i])
                 /\ sb[i].guest = files[c][i].path
                 /\ NodeAt(sb[i].host).kind = "dir"
           /\ pc[c] = "mf_loop" => Len(sb) = idx[c] - 1
           /\ pc[c] = "done" =>
                 /\ Len(sb) = k - 1
                 /\ result[c] = IF k <= Len(files[c])
                                THEN Err(EntryFailure(wd, files[c][k]))
                                ELSE Ok

C3_Witness ==
    \E c \in MountCalls :
        /\ pc[c] = "done"
        /\ Len(files[c]) = 2
        /\ Len(store_builder[c]) = 1
        /\ result[c] = Err("NotADirectory")

Pairs(sb) == [i \in 1..Len(sb) |-> <<sb[i].host, sb[i].guest>>]

\* C4: every registered preopen is read-write exactly when the loader's
\* allow_transient_write is set; two mount_files runs over the same entries
\* whose loaders differ only in that flag end the same way and register the
\* same (host directory, guest path) pairs in the same order.
C4_ModeOnly ==
    /\ \A c \in MountCalls : \A i \in 1..Len(store_builder[c]) :
          store_builder[c][i].mode = "rw" <=> loader[self[c]].allow_transient_write
    /\ \A c, d \in MountCalls :
          ( /\ pc[c] = "done" /\ pc[d] = "done"
            /\ files[c] = files[d]
            /\ loader[self[c]].working_dir = loader[self[d]].working_dir
            /\ loader[self[c]].allow_transient_write # loader[self[d]].allow_transient_write )
          => /\ result[c] = result[d]
             /\ Pairs(store_builder[c]) = Pairs(store_builder[d])

C4_Witness ==
    \E c, d \in MountCalls :
        /\ pc[c] = "done" /\ pc[d] = "done"
        /\ files[c] = files[d]
        /\ loader[self[c]].allow_transient_write
        /\ ~loader[self[d]].allow_transient_write
        /\ Len(store_builder[c]) > 0
        /\ store_builder[c][1].mode = "rw"
        /\ store_builder[d][1].mode = "ro"

ComponentStages == <<"resolve", "read", "normalize", "adapt", "compile">>
ComposeStages == <<"resolve", "read", "normalize", "adapt", "compose">>

\* C5: load_component runs its stages in the order resolve, read, normalize,
\* adapt, compile; adaptation starts only after normalization succeeded and
\* its input is the normalizer's component, never the raw bytes of a module.

C5_StageOrder ==
    \A c \in ComponentCalls :
        /\ IsPrefix(trace[c], ComponentStages) \/ IsPrefix(trace[c], ComposeStages)
        /\ Ran(c, "adapt") =>
              /\ component[c].tag \in {"Borrowed", "Owned"}
              /\ component[c] = componentize_if_necessary(bytes[c]).cow
              /\ adaptInput[c] = component[c].bytes
              /\ adaptInput[c].shape = "component"

C5_Witness ==
    \E c \in ComponentCalls :
        /\ bytes[c].shape = "module"
        /\ Ran(c, "adapt")
        /\ adaptInput[c] = Bin("component", bytes[c].world, TRUE)
        /\ trace[c] = ComponentStages

\* every run of adapt_old_worlds_to_new resolves the contract anew
ContractResolutions == Cardinality({ c \in Calls : Ran(c, "adapt") })

\* C6: the target contract is resolved at most once per process, whatever
\* the number of load_component calls.
C6_ResolvedOnce == ContractResolutions <= 1

\* C7: a load_component call in which a stage fails returns that error to
\* the caller, runs no later stage, never invokes the engine, runs no stage
\* twice and produces no compiled component.
C7_FailFast ==
    \A c \in ComponentCalls :
        /\ \A s \in {"resolve", "read", "normalize", "adapt", "compose", "compile"} :
              Times(c, s) <= 1
        /\ (pc[c] = "done" /\ result[c].kind # "Ok") =>
              /\ result[c].kind = "Err"
              /\ ~Ran(c, "compile")
              /\ engineInput[c] = NoBytes

\* C8: load_module resolves the path and compiles directly; it never runs
\* the normalizer, the contract resolver or the adapter, and a missing or
\* invalid source fails the call before the engine is invoked.
C8_ModuleDirect ==
    \A c \in ModuleCalls :
        /\ IsPrefix(trace[c], <<"resolve", "compile">>)
        /\ component[c] = NoCow /\ adaptInput[c] = NoBytes /\ adapted[c] = NoCow
        /\ (source[c] = NoSource \/ source[c].scheme # "file") =>
              /\ ~Ran(c, "compile")
              /\ engineInput[c] = NoBytes
              /\ pc[c] = "done" => result[c].kind = "Err"

C8_Witness ==
    /\ \E c \in ModuleCalls :
          pc[c] = "done" /\ result[c] = Ok /\ engineInput[c] = CurrentModule
    /\ \E c \in ModuleCalls :
          pc[c] = "done" /\ source[c] = NoSource /\ result[c] = Err("MissingSourceField")

\* what each method returns for its input when it runs alone
AloneLoadComponent(src, w) ==
    LET p == ResolvePath(src) IN
    IF p.res.kind # "Ok" THEN p.res ELSE
    LET b == FsRead(p.path) IN
    IF b.res.kind # "Ok" THEN b.res ELSE
    LET n == componentize_if_necessary(b.bytes) IN
    IF n.res.kind # "Ok" THEN n.res ELSE
    LET k == ResolveContract(w) IN
    IF k.res.kind # "Ok" THEN k.res ELSE
    IF Targets(k.contract, n.cow.bytes)
    THEN CompileComponent(n.cow.bytes)
    ELSE Panic("not yet implemented")

AloneLoadModule(src) ==
    LET p == ResolvePath(src) IN
    IF p.res.kind # "Ok" THEN p.res ELSE CompileModuleFromFile(p.path)

RECURSIVE AloneMount(_, _, _, _)
AloneMount(fl, i, cfg, sb) ==
    IF i > Len(fl) THEN [res |-> Ok, sb |-> sb]
    ELSE LET f == EntryFailure(cfg.working_dir, fl[i]) IN
         IF f # "none" THEN [res |-> Err(f), sb |-> sb]
         ELSE AloneMount(fl, i + 1, cfg,
                  Append(sb, Directive(ResolvedHost(cfg.working_dir, fl[i]), fl[i].path,
                                       IF cfg.allow_transient_write THEN "rw" ELSE "ro")))

OutcomeIsolated ==
    \A c \in Calls :
        pc[c] = "done" =>
            CASE op[c] = "load_component" -> result[c] = AloneLoadComponent(source[c], wit)
              [] op[c] = "load_module" -> result[c] = AloneLoadModule(source[c])
              [] op[c] = "mount_files" ->
                    LET m == AloneMount(files[c], 1, loader[self[c]], <<>>) IN
                    result[c] = m.res /\ store_builder[c] = m.sb
              [] OTHER -> FALSE

Branch(c) ==
    CASE adapted[c].tag = "Borrowed" -> "pass-through"
      [] adapted[c].tag = "Owned" -> "adapted"
      [] pc[c] = "lc_compose" \/ Ran(c, "compose") -> "compose"
      [] OTHER -> "failed"

AdaptDecided(c) == Ran(c, "adapt") /\ pc[c] # "lc_adapt"

====
